---- MODULE Spec2Model ----
(***************************************************************************)
(* A model of advanced-vector/vector.h: RawMemory<T> (an owner of raw,     *)
(* uninitialised storage) and Vector<T> (a growable array built on it).    *)
(*                                                                         *)
(* A buffer is a sequence of slots; a slot is Raw (no object lives there)  *)
(* or holds the value of a live object.  Offsets of the source are 0-based *)
(* (data_ + k); slot k of the source is element k + 1 of the sequence.     *)
(* Every operation is an operator from the Vector before the call and a    *)
(* description f of the elementary step that throws (NoFail: none) to the  *)
(* Vector after the call, together with what the call did to the heap.     *)
(***************************************************************************)
EXTENDS Integers, Sequences, FiniteSets, TLC

\* Largest capacity the model lets a Vector reach.
MaxCap == 4
\* Largest capacity the model lets the second Vector reach.
MaxOther == 2
\* The width in bits the model gives size_t: size_ is counted modulo
\* 2 ^ SizeBits.
SizeBits == 4

\* A slot of raw storage in which no object lives.
Raw == -1
\* The valid but unspecified value of an object that has been moved from.
MovedFrom == -2
\* The value of a value-initialised element, T().
DefaultValue == 0

\* The element values a caller passes in: T() and one other value.
Values == {DefaultValue, 1}
Vecs == {1, 2}

VARIABLES
    vec,    \* vec[i]: the Vector objects of the program
    T,      \* the element type: what std::is_nothrow_move_constructible_v<T>
            \* and std::is_copy_constructible_v<T> say about it
    heap,   \* "ok", or what an undefined operator delete made of the heap
    last,   \* the last call: operation, arguments, path taken and outcome
    mem,    \* mem[b]: the RawMemory objects the program handles directly
    blocks  \* blocks[a]: what has become of the storage operator new gave at a

vars == <<vec, T, heap, last, mem, blocks>>

Max(a, b) == IF a >= b THEN a ELSE b

\* --size_ and size_ -= 1 on a size_t: the difference wraps around below 0.
Decrement(n) == (n - 1) % (2 ^ SizeBits)

----------------------------------------------------------------------------
(* RawMemory<T> *)

\* RawMemory(capacity): Allocate(capacity) slots of raw storage; the empty
\* sequence is the null buffer of capacity 0.
RawMemory(capacity) == [j \in 1 .. capacity |-> Raw]

\* The number of live objects in a buffer.
LiveCount(buf) == Cardinality({j \in 1 .. Len(buf) : buf[j] # Raw})

\* ~RawMemory: Deallocate releases the storage and runs no destructor, so
\* every object still alive in the buffer is leaked.
DeallocateLeaks(buf) == LiveCount(buf)

\* Most allocations the RawMemory objects of the program make in one run.
MaxAllocs == 3

\* nullptr
Null == 0
\* The addresses operator new returns, one for every allocation of a run.
Blocks == 1 .. MaxAllocs
\* The RawMemory objects the program handles directly.
Bufs == {1, 2, 3}

\* The storage of a RawMemory object that is not alive: before its
\* construction and after its destruction.
NoBuffer == [alive |-> FALSE, buffer_ |-> Null, capacity_ |-> 0]

\* Allocate with operator new called for n == 0 as well.
Allocate_Always(n, a) == a

\* Allocate(n): n != 0 ? operator new(n * sizeof(T)) : nullptr, where a is
\* the address operator new returns.
Allocate(n, a) == IF n # 0 THEN a ELSE Null

\* Deallocate(buf): operator delete(buf), which does nothing for nullptr;
\* bl is the heap before and the result the heap after.
Deallocate(buf, bl) ==
    IF buf = Null THEN bl
    ELSE [bl EXCEPT ![buf] = IF @ = "allocated" THEN "released"
                             ELSE "released twice"]

\* explicit RawMemory(size_t capacity)
RawCtor(capacity, a) ==
    [alive |-> TRUE, buffer_ |-> Allocate(capacity, a), capacity_ |-> capacity]

\* RawMemory(RawMemory&& other): exchange(other.buffer_, nullptr),
\* exchange(other.capacity_, 0)
RawMoveCtor(other) ==
    [this |-> [alive |-> TRUE, buffer_ |-> other.buffer_,
               capacity_ |-> other.capacity_],
     other |-> [other EXCEPT !.buffer_ = Null, !.capacity_ = 0]]

\* RawMemory& operator=(RawMemory&& rhs); same: this == &rhs
RawMoveAssign(this, rhs, same) ==
    IF same THEN [this |-> this, other |-> rhs]
    ELSE [this |-> [this EXCEPT !.buffer_ = rhs.buffer_,
                                !.capacity_ = rhs.capacity_],
          other |-> [rhs EXCEPT !.buffer_ = Null, !.capacity_ = 0]]

\* RawMemory::Swap(RawMemory& other)
RawSwap(this, other) ==
    [this |-> [this EXCEPT !.buffer_ = other.buffer_,
                           !.capacity_ = other.capacity_],
     other |-> [other EXCEPT !.buffer_ = this.buffer_,
                             !.capacity_ = this.capacity_]]

\* ~RawMemory: Deallocate(buffer_); the heap it leaves.
RawDtor(this, bl) == Deallocate(this.buffer_, bl)

----------------------------------------------------------------------------
(* Vector<T>: the state of one object *)

\* Vector(): data_ is the null buffer, size_ is 0.  released records that
\* the storage data_ points to has been handed back to the heap while data_
\* still points to it.
EmptyVector == [data_ |-> << >>, size_ |-> 0, released |-> FALSE]

Capacity(v) == Len(v.data_)
Size(v) == v.size_

\* The elements of v in order: *begin() .. *(end() - 1).
Elems(v) == SubSeq(v.data_, 1, v.size_)
\* UseMove with every reallocation moving, whatever T is.
UseMove_Always == TRUE

\* The branch taken by every reallocation:
\* is_nothrow_move_constructible_v<T> || !is_copy_constructible_v<T>.
UseMove == T.nothrowMove \/ ~T.copyable

----------------------------------------------------------------------------
(* The standard algorithms the Vector calls.  k is the number of element   *)
(* operations that succeed before one throws; k >= n means none throws.    *)

Min(a, b) == IF a <= b THEN a ELSE b

\* std::destroy_n(buf + first, n)
destroy_n(buf, first, n) ==
    [j \in 1 .. Len(buf) |-> IF j > first /\ j <= first + n THEN Raw ELSE buf[j]]
\* uninitialized_copy_n that leaves the copies it made when a copy throws.
uninitialized_copy_n_NoRollback(src, first, n, dst, dfirst, k) ==
    LET done == Min(k, n)
        built == [j \in 1 .. Len(dst) |->
                    IF j > dfirst /\ j <= dfirst + done
                    THEN src[first + (j - dfirst)] ELSE dst[j]]
    IN  [src |-> src, dst |-> built, ok |-> k >= n, copies |-> done]

\* std::uninitialized_copy_n(src + first, n, dst + dfirst): copy-constructs
\* into raw storage; when a copy throws, the copies already made are
\* destroyed and the exception is rethrown.
uninitialized_copy_n(src, first, n, dst, dfirst, k) ==
    LET done == Min(k, n)
        built == [j \in 1 .. Len(dst) |->
                    IF j > dfirst /\ j <= dfirst + done
                    THEN src[first + (j - dfirst)] ELSE dst[j]]
    IN  [src |-> src,
         dst |-> IF k < n THEN destroy_n(built, dfirst, done) ELSE built,
         ok |-> k >= n,
         copies |-> done]
\* uninitialized_move_n that fills the destination from its far end.
uninitialized_move_n_Reversed(src, first, n, dst, dfirst, k) ==
    LET done == Min(k, n)
        built == [j \in 1 .. Len(dst) |->
                    IF j > dfirst /\ j <= dfirst + done
                    THEN src[first + done + 1 - (j - dfirst)] ELSE dst[j]]
        moved == [j \in 1 .. Len(src) |->
                    IF j > first /\ j <= first + done THEN MovedFrom ELSE src[j]]
    IN  [src |-> moved,
         dst |-> IF k < n THEN destroy_n(built, dfirst, done) ELSE built,
         ok |-> k >= n,
         copies |-> 0]

\* std::uninitialized_move_n(src + first, n, dst + dfirst): the same with the
\* move constructor; the sources already moved from stay moved from.
uninitialized_move_n(src, first, n, dst, dfirst, k) ==
    LET done == Min(k, n)
        built == [j \in 1 .. Len(dst) |->
                    IF j > dfirst /\ j <= dfirst + done
                    THEN src[first + (j - dfirst)] ELSE dst[j]]
        moved == [j \in 1 .. Len(src) |->
                    IF j > first /\ j <= first + done THEN MovedFrom ELSE src[j]]
    IN  [src |-> moved,
         dst |-> IF k < n THEN destroy_n(built, dfirst, done) ELSE built,
         ok |-> k >= n,
         copies |-> 0]

\* std::uninitialized_value_construct_n(buf + first, n)
uninitialized_value_construct_n(buf, first, n, k) ==
    LET done == Min(k, n)
        built == [j \in 1 .. Len(buf) |->
                    IF j > first /\ j <= first + done THEN DefaultValue ELSE buf[j]]
    IN  [dst |-> IF k < n THEN destroy_n(built, first, done) ELSE built,
         ok |-> k >= n]

\* *(buf + d) = std::move(*(buf + s))
MoveAssign(buf, s, d) ==
    IF s = d THEN buf
    ELSE [buf EXCEPT ![d + 1] = buf[s + 1], ![s + 1] = MovedFrom]

\* std::move(buf + first, buf + last_, buf + d_first): front to back.
RECURSIVE move(_, _, _, _, _)
move(buf, first, last_, d_first, k) ==
    IF first >= last_ \/ k <= 0 THEN buf
    ELSE move(MoveAssign(buf, first, d_first), first + 1, last_, d_first + 1, k - 1)

\* std::move_backward(buf + first, buf + last_, buf + d_last): back to front.
RECURSIVE move_backward(_, _, _, _, _)
move_backward(buf, first, last_, d_last, k) ==
    IF first >= last_ \/ k <= 0 THEN buf
    ELSE move_backward(MoveAssign(buf, last_ - 1, d_last - 1),
                       first, last_ - 1, d_last - 1, k - 1)
\* std::copy that assigns nothing.
copy_Nothing(src, n, dst, k) == dst

\* std::copy(src, src + n, dst): copy-assigns onto live objects, front to back.
copy(src, n, dst, k) ==
    [j \in 1 .. Len(dst) |-> IF j <= Min(k, n) THEN src[j] ELSE dst[j]]

----------------------------------------------------------------------------
(* What a call reports.  v: the Vector after the call; ok: it returned     *)
(* (FALSE: it threw); path: "grow", "inplace" or "none"; leaked: objects   *)
(* whose storage was released or overwritten without their destructor;     *)
(* allocs, copies: allocations made and elements copied from slot to slot; *)
(* del: what the call passed to operator delete outside a RawMemory        *)
(* ("none", "buffer": the address of the buffer data_ owns, "interior": an *)
(* address inside that buffer).                                            *)

NoFail == [at |-> "none", k |-> 0]

Result(v, ok, path, leaked, allocs, copies, del) ==
    [v |-> v, ok |-> ok, path |-> path, leaked |-> leaked,
     allocs |-> allocs, copies |-> copies, del |-> del]

\* The number of live objects in the n slots from buf + first.
LiveIn(buf, first, n) ==
    Cardinality({j \in 1 .. Len(buf) : j > first /\ j <= first + n /\ buf[j] # Raw})

\* new (buf + at) T(...): an object built over a live one leaks that one.
Overwritten(buf, at) == LiveIn(buf, at, 1)

\* The argument of a call that adds an element is a value of the caller's
\* or Ref(i): a reference to the element at offset i of the Vector the call
\* is made on (v[i]), from which the new element is copied.
Ref(i) == MovedFrom - 1 - i
IsRef(x) == x < MovedFrom

\* T(std::forward<Args>(args)...): the value of the object constructed from
\* the argument x at a moment when the buffer of the Vector is buf.
Deref(buf, x) == IF IsRef(x) THEN buf[MovedFrom - x] ELSE x

----------------------------------------------------------------------------
(* Vector<T>::Reserve *)
\* Reserve with new_capacity < Capacity() as the test for returning at once.
Reserve_Strict(v, new_capacity, f) ==
    IF new_capacity < Capacity(v)
    THEN Result(v, TRUE, "none", 0, 0, 0, "none")
    ELSE IF f.at = "alloc"
    THEN Result(v, FALSE, "grow", 0, 0, 0, "none")
    ELSE
        LET new_data == RawMemory(new_capacity)
            k == IF f.at = "xfer" THEN f.k ELSE v.size_
            t == IF UseMove
                 THEN uninitialized_move_n(v.data_, 0, v.size_, new_data, 0, k)
                 ELSE uninitialized_copy_n(v.data_, 0, v.size_, new_data, 0, k)
        IN  IF ~t.ok
            THEN Result([v EXCEPT !.data_ = t.src], FALSE, "grow",
                        DeallocateLeaks(t.dst), 1, t.copies, "none")
            ELSE LET old == destroy_n(t.src, 0, v.size_)
                 IN  Result([v EXCEPT !.data_ = t.dst], TRUE, "grow",
                            DeallocateLeaks(old), 1, t.copies, "none")

Reserve(v, new_capacity, f) ==
    IF new_capacity <= Capacity(v)
    THEN Result(v, TRUE, "none", 0, 0, 0, "none")
    ELSE IF f.at = "alloc"
    THEN Result(v, FALSE, "grow", 0, 0, 0, "none")
    ELSE
        LET new_data == RawMemory(new_capacity)
            k == IF f.at = "xfer" THEN f.k ELSE v.size_
            t == IF UseMove
                 THEN uninitialized_move_n(v.data_, 0, v.size_, new_data, 0, k)
                 ELSE uninitialized_copy_n(v.data_, 0, v.size_, new_data, 0, k)
        IN  IF ~t.ok
            THEN \* the exception leaves Reserve: ~RawMemory releases new_data
                 Result([v EXCEPT !.data_ = t.src], FALSE, "grow",
                        DeallocateLeaks(t.dst), 1, t.copies, "none")
            ELSE \* destroy_n, data_.Swap(new_data), ~RawMemory of the old buffer
                 LET old == destroy_n(t.src, 0, v.size_)
                 IN  Result([v EXCEPT !.data_ = t.dst], TRUE, "grow",
                            DeallocateLeaks(old), 1, t.copies, "none")

----------------------------------------------------------------------------
(* Vector<T>::PushBack and Vector<T>::EmplaceBack *)
\* GrowCapacity with a growth of one slot instead of a doubling.
GrowCapacity_PlusOne(v) == IF v.size_ = 0 THEN 1 ELSE v.size_ + 1

\* The capacity of the buffer a full Vector grows into.
GrowCapacity(v) == IF v.size_ = 0 THEN 1 ELSE v.size_ * 2
\* PushBack whose reallocating path transfers the elements before it
\* constructs the new one.
PushBack_TransferFirst(v, value, f) ==
    IF Capacity(v) <= v.size_
    THEN
        LET t == IF UseMove
                 THEN uninitialized_move_n(v.data_, 0, v.size_,
                                           RawMemory(GrowCapacity(v)), 0, v.size_)
                 ELSE uninitialized_copy_n(v.data_, 0, v.size_,
                                           RawMemory(GrowCapacity(v)), 0, v.size_)
        IN  Result([v EXCEPT !.data_ = [t.dst EXCEPT ![v.size_ + 1] =
                                                       Deref(t.src, value)],
                             !.size_ = v.size_ + 1],
                   TRUE, "grow", 0, 1, t.copies, "none")
    ELSE Result([v EXCEPT !.data_[v.size_ + 1] = Deref(v.data_, value),
                          !.size_ = v.size_ + 1],
                TRUE, "inplace", Overwritten(v.data_, v.size_), 0, 0, "none")

PushBack(v, value, f) ==
    IF Capacity(v) <= v.size_
    THEN
        IF f.at = "alloc"
        THEN Result(v, FALSE, "grow", 0, 0, 0, "none")
        ELSE IF f.at = "ctor"
        THEN \* the constructor of the new element throws into raw new_data
             Result(v, FALSE, "grow", 0, 1, 0, "none")
        ELSE
            LET new_data == [RawMemory(GrowCapacity(v))
                               EXCEPT ![v.size_ + 1] = Deref(v.data_, value)]
                k == IF f.at = "xfer" THEN f.k ELSE v.size_
                t == IF UseMove
                     THEN uninitialized_move_n(v.data_, 0, v.size_, new_data, 0, k)
                     ELSE uninitialized_copy_n(v.data_, 0, v.size_, new_data, 0, k)
            IN  IF ~t.ok
                THEN Result([v EXCEPT !.data_ = t.src], FALSE, "grow",
                            DeallocateLeaks(t.dst), 1, t.copies, "none")
                ELSE LET old == destroy_n(t.src, 0, v.size_)
                     IN  Result([v EXCEPT !.data_ = t.dst, !.size_ = v.size_ + 1],
                                TRUE, "grow", DeallocateLeaks(old), 1,
                                t.copies, "none")
    ELSE
        IF f.at = "ctor"
        THEN Result(v, FALSE, "inplace", 0, 0, 0, "none")
        ELSE Result([v EXCEPT !.data_[v.size_ + 1] = Deref(v.data_, value),
                              !.size_ = v.size_ + 1],
                    TRUE, "inplace", Overwritten(v.data_, v.size_), 0, 0, "none")

EmplaceBack(v, value, f) ==
    IF Capacity(v) <= v.size_
    THEN
        IF f.at = "alloc"
        THEN Result(v, FALSE, "grow", 0, 0, 0, "none")
        ELSE IF f.at = "ctor"
        THEN Result(v, FALSE, "grow", 0, 1, 0, "none")
        ELSE
            LET new_data == [RawMemory(GrowCapacity(v))
                               EXCEPT ![v.size_ + 1] = Deref(v.data_, value)]
                k == IF f.at = "xfer" THEN f.k ELSE v.size_
                t == IF UseMove
                     THEN uninitialized_move_n(v.data_, 0, v.size_, new_data, 0, k)
                     ELSE uninitialized_copy_n(v.data_, 0, v.size_, new_data, 0, k)
            IN  IF ~t.ok
                THEN Result([v EXCEPT !.data_ = t.src], FALSE, "grow",
                            DeallocateLeaks(t.dst), 1, t.copies, "none")
                ELSE LET old == destroy_n(t.src, 0, v.size_)
                     IN  Result([v EXCEPT !.data_ = t.dst, !.size_ = v.size_ + 1],
                                TRUE, "grow", DeallocateLeaks(old), 1, t.copies, "none")
    ELSE
        IF f.at = "ctor"
        THEN Result(v, FALSE, "inplace", 0, 0, 0, "none")
        ELSE Result([v EXCEPT !.data_[v.size_ + 1] = Deref(v.data_, value),
                              !.size_ = v.size_ + 1],
                    TRUE, "inplace", Overwritten(v.data_, v.size_), 0, 0, "none")

----------------------------------------------------------------------------
(* Vector<T>::Emplace and Vector<T>::Insert *)

\* catch (...) { operator delete (end()); throw; } of the in-place path:
\* end() is data_.GetAddress() + size_, the address of the owned buffer when
\* size_ is 0 and an address inside it otherwise.
CatchDelete(v) == IF v.size_ = 0 THEN "buffer" ELSE "interior"
\* Emplace that takes no notice of pos and adds the element at the end.
Emplace_AtEnd(v, position, value, f) == EmplaceBack(v, value, f)

Emplace(v, position, value, f) ==
    IF Capacity(v) <= v.size_
    THEN
        IF f.at = "alloc"
        THEN Result(v, FALSE, "grow", 0, 0, 0, "none")
        ELSE IF f.at = "ctor"
        THEN Result(v, FALSE, "grow", 0, 1, 0, "none")
        ELSE
            LET new_data == [RawMemory(GrowCapacity(v))
                               EXCEPT ![position + 1] = Deref(v.data_, value)]
                k == IF f.at = "xfer" THEN f.k ELSE v.size_
                t1 == IF UseMove
                      THEN uninitialized_move_n(v.data_, 0, position, new_data, 0, k)
                      ELSE uninitialized_copy_n(v.data_, 0, position, new_data, 0, k)
                t2 == IF UseMove
                      THEN uninitialized_move_n(t1.src, position, v.size_ - position,
                                                t1.dst, position + 1, k - position)
                      ELSE uninitialized_copy_n(t1.src, position, v.size_ - position,
                                                t1.dst, position + 1, k - position)
            IN  IF ~t1.ok
                THEN Result([v EXCEPT !.data_ = t1.src], FALSE, "grow",
                            DeallocateLeaks(t1.dst), 1, t1.copies, "none")
                ELSE IF ~t2.ok
                THEN Result([v EXCEPT !.data_ = t2.src], FALSE, "grow",
                            DeallocateLeaks(t2.dst), 1, t1.copies + t2.copies, "none")
                ELSE LET old == destroy_n(t2.src, 0, v.size_)
                     IN  Result([v EXCEPT !.data_ = t2.dst, !.size_ = v.size_ + 1],
                                TRUE, "grow", DeallocateLeaks(old), 1,
                                t1.copies + t2.copies, "none")
    ELSE
        IF position # v.size_
        THEN
            IF f.at = "ctor" \/ f.at = "mvlast"
            THEN \* T new_s(args...) or new (end()) T(move(data_[size_ - 1])) throws
                 Result(v, FALSE, "inplace", 0, 0, 0, CatchDelete(v))
            ELSE
                LET new_s == Deref(v.data_, value)
                    n == v.size_ - 1 - position
                    k == IF f.at = "shift" THEN f.k ELSE n
                    atEnd == [v.data_ EXCEPT ![v.size_ + 1] = v.data_[v.size_],
                                             ![v.size_] = MovedFrom]
                    over == Overwritten(v.data_, v.size_)
                    shifted == move_backward(atEnd, position, v.size_ - 1, v.size_, k)
                IN  IF k < n \/ f.at = "assign"
                    THEN Result([v EXCEPT !.data_ = shifted], FALSE, "inplace",
                                over, 0, 0, CatchDelete(v))
                    ELSE Result([v EXCEPT !.data_ = [shifted EXCEPT ![position + 1] = new_s],
                                          !.size_ = v.size_ + 1],
                                TRUE, "inplace", over, 0, 0, "none")
        ELSE
            IF f.at = "ctor"
            THEN Result(v, FALSE, "inplace", 0, 0, 0, CatchDelete(v))
            ELSE Result([v EXCEPT !.data_[v.size_ + 1] = Deref(v.data_, value),
                                  !.size_ = v.size_ + 1],
                        TRUE, "inplace", Overwritten(v.data_, v.size_), 0, 0, "none")

Insert(v, position, value, f) == Emplace(v, position, value, f)

----------------------------------------------------------------------------
(* Vector<T>::Erase, PopBack, Resize *)
\* Erase without the shift: the last element goes instead of the one at pos.
Erase_DropsLast(v, position, f) ==
    Result([v EXCEPT !.data_ = destroy_n(v.data_, v.size_ - 1, 1),
                     !.size_ = v.size_ - 1],
           TRUE, "inplace", 0, 0, 0, "none")

\* Erase without the destroy_at(end() - 1) of the vacated last slot.
Erase_KeepsLast(v, position, f) ==
    LET n == v.size_ - 1 - position
        k == IF f.at = "shift" THEN f.k ELSE n
        shifted == move(v.data_, position + 1, v.size_, position, k)
    IN  IF k < n
        THEN Result([v EXCEPT !.data_ = shifted], FALSE, "inplace", 0, 0, 0, "none")
        ELSE Result([v EXCEPT !.data_ = shifted, !.size_ = v.size_ - 1],
                    TRUE, "inplace", 0, 0, 0, "none")

Erase(v, position, f) ==
    LET n == v.size_ - 1 - position
        k == IF f.at = "shift" THEN f.k ELSE n
        shifted == move(v.data_, position + 1, v.size_, position, k)
    IN  IF k < n
        THEN Result([v EXCEPT !.data_ = shifted], FALSE, "inplace", 0, 0, 0, "none")
        ELSE Result([v EXCEPT !.data_ = destroy_n(shifted, v.size_ - 1, 1),
                              !.size_ = Decrement(v.size_)],
                    TRUE, "inplace", 0, 0, 0, "none")

\* PopBack: destroy_at(data_.GetAddress() + size_ - 1); --size_; nothing
\* tests size_.
PopBack(v) ==
    Result([v EXCEPT !.data_ = destroy_n(v.data_, v.size_ - 1, 1),
                     !.size_ = Decrement(v.size_)],
           TRUE, "inplace", 0, 0, 0, "none")

\* T& operator[](size_t index) in a build with assertions enabled:
\* assert(index < size_) stops the program (path "assert"), otherwise the
\* call returns data_[index] and changes nothing.
Index(v, index) ==
    IF index < v.size_
    THEN Result(v, TRUE, "none", 0, 0, 0, "none")
    ELSE Result(v, FALSE, "assert", 0, 0, 0, "none")
\* Resize whose shrinking branch skips destroy_n.
Resize_KeepsTail(v, new_size, f) ==
    IF new_size < v.size_
    THEN Result([v EXCEPT !.size_ = new_size], TRUE, "inplace", 0, 0, 0, "none")
    ELSE
        LET r == Reserve(v, new_size, f)
            n == new_size - v.size_
            c == uninitialized_value_construct_n(r.v.data_, v.size_, n, n)
        IN  Result([r.v EXCEPT !.data_ = c.dst, !.size_ = new_size], TRUE, r.path,
                   r.leaked, r.allocs, r.copies, "none")

Resize(v, new_size, f) ==
    IF new_size < v.size_
    THEN Result([v EXCEPT !.data_ = destroy_n(v.data_, new_size, v.size_ - new_size),
                          !.size_ = new_size],
                TRUE, "inplace", 0, 0, 0, "none")
    ELSE
        LET r == Reserve(v, new_size, f)
            n == new_size - v.size_
            k == IF f.at = "value" THEN f.k ELSE n
            c == uninitialized_value_construct_n(r.v.data_, v.size_, n, k)
            over == LiveIn(r.v.data_, v.size_, Min(k, n))
        IN  IF ~r.ok THEN r
            ELSE IF ~c.ok
            THEN Result([r.v EXCEPT !.data_ = c.dst], FALSE, r.path,
                        r.leaked + over, r.allocs, r.copies, "none")
            ELSE Result([r.v EXCEPT !.data_ = c.dst, !.size_ = new_size], TRUE, r.path,
                        r.leaked + over, r.allocs, r.copies, "none")

----------------------------------------------------------------------------
(* Construction, destruction, Swap and assignment *)

\* Vector(const Vector& other)
VectorCopyCtor(other, f) ==
    IF f.at = "alloc"
    THEN Result(EmptyVector, FALSE, "grow", 0, 0, 0, "none")
    ELSE
        LET k == IF f.at = "xfer" THEN f.k ELSE other.size_
            t == uninitialized_copy_n(other.data_, 0, other.size_,
                                      RawMemory(other.size_), 0, k)
        IN  IF ~t.ok
            THEN Result(EmptyVector, FALSE, "grow", DeallocateLeaks(t.dst), 1,
                        t.copies, "none")
            ELSE Result([data_ |-> t.dst, size_ |-> other.size_, released |-> FALSE],
                        TRUE, "grow", 0, 1, t.copies, "none")

\* Vector(Vector&& other): data_(move(other.data_)), size_(exchange(other.size_, 0));
\* RawMemory(RawMemory&&) leaves other.data_ null with capacity 0.
VectorMoveCtor(other) ==
    [new |-> other, other |-> EmptyVector, allocs |-> 0, copies |-> 0]

\* ~Vector: destroy_n(data_.GetAddress(), size_), then ~RawMemory.
\* The number of objects it leaves alive in the storage it releases.
VectorDtor(v) == DeallocateLeaks(destroy_n(v.data_, 0, v.size_))

\* Vector::Swap: data_.Swap(other.data_); swap(size_, other.size_)
Swap(v, other) == [this |-> other, other |-> v, allocs |-> 0, copies |-> 0]

\* Vector& operator=(const Vector& rhs); same: this == &rhs
CopyAssign(v, rhs, same, f) ==
    IF same THEN Result(v, TRUE, "none", 0, 0, 0, "none")
    ELSE IF rhs.size_ > Capacity(v)
    THEN
        LET c == VectorCopyCtor(rhs, f)
        IN  IF ~c.ok THEN Result(v, FALSE, "grow", c.leaked, c.allocs, c.copies, "none")
            ELSE \* Swap(rhs_copy); ~Vector of rhs_copy, which now holds the old state
                 Result(Swap(v, c.v).this, TRUE, "grow",
                        c.leaked + VectorDtor(Swap(v, c.v).other), c.allocs, c.copies,
                        "none")
    ELSE IF v.size_ <= rhs.size_
    THEN
        LET k == IF f.at = "copy" THEN f.k ELSE v.size_
            assigned == copy(rhs.data_, v.size_, v.data_, k)
            n == rhs.size_ - v.size_
            k2 == IF f.at = "xfer" THEN f.k ELSE n
            t == uninitialized_copy_n(rhs.data_, v.size_, n, assigned, v.size_, k2)
        IN  IF k < v.size_
            THEN Result([v EXCEPT !.data_ = assigned], FALSE, "inplace", 0, 0,
                        Min(k, v.size_), "none")
            ELSE IF ~t.ok
            THEN Result([v EXCEPT !.data_ = t.dst], FALSE, "inplace", 0, 0,
                        v.size_ + t.copies, "none")
            ELSE Result([v EXCEPT !.data_ = t.dst, !.size_ = rhs.size_], TRUE, "inplace",
                        LiveIn(assigned, v.size_, n), 0, v.size_ + t.copies, "none")
    ELSE
        LET k == IF f.at = "copy" THEN f.k ELSE rhs.size_
            assigned == copy(rhs.data_, rhs.size_, v.data_, k)
        IN  IF k < rhs.size_
            THEN Result([v EXCEPT !.data_ = assigned], FALSE, "inplace", 0, 0, k, "none")
            ELSE Result([v EXCEPT !.data_ = destroy_n(assigned, rhs.size_,
                                                      v.size_ - rhs.size_),
                                  !.size_ = rhs.size_],
                        TRUE, "inplace", 0, 0, rhs.size_, "none")
\* operator=(Vector&&) that copies rhs into new storage and leaves rhs alone.
MoveAssignVector_Copies(v, rhs) ==
    [this |-> [data_ |-> Elems(rhs), size_ |-> rhs.size_, released |-> FALSE],
     other |-> rhs, allocs |-> 1, copies |-> rhs.size_]

\* Vector& operator=(Vector&& rhs) noexcept { Swap(rhs); return *this; }
MoveAssignVector(v, rhs) == Swap(v, rhs)

----------------------------------------------------------------------------
(* The program: two Vector<T> objects and the calls made on them *)

\* The element types: T's move constructor is noexcept or not, T is
\* copy-constructible or not.
ElemTypes == [nothrowMove : BOOLEAN, copyable : BOOLEAN]

\* The elementary steps of a call that can throw: the allocation ("alloc"),
\* the constructor of the new element ("ctor"), the k-th value-construction
\* of Resize ("value"), the k-th element of a transfer into new storage
\* ("xfer"), the move of the last element to end() ("mvlast"), the k-th
\* assignment of a shift ("shift"), the assignment of the new element into
\* its place ("assign") and the k-th assignment of std::copy ("copy").
Steps(kinds) == [at : kinds, k : {0}]
IndexedSteps(kinds) == [at : kinds, k : 0 .. (MaxCap - 1)]

ReserveSteps == Steps({"alloc"}) \cup IndexedSteps({"xfer"})
ResizeSteps == Steps({"alloc"}) \cup IndexedSteps({"xfer", "value"})
PushBackSteps == Steps({"alloc", "ctor"}) \cup IndexedSteps({"xfer"})
EmplaceSteps ==
    Steps({"alloc", "ctor", "mvlast", "assign"}) \cup IndexedSteps({"xfer", "shift"})
EraseSteps == IndexedSteps({"shift"})
CopyAssignSteps == Steps({"alloc"}) \cup IndexedSteps({"xfer", "copy"})

\* What the element type lets throw.  Allocation, the constructor called
\* with the caller's arguments and a value-construction may always throw;
\* the construction of the new element from a T (byValue) is a copy or a
\* move; a copy may throw; a move constructor throws only when it is not
\* noexcept; the assignment operators, which the Vector never inspects, may
\* throw.  byCopy: the transfer is that of the copy constructor of Vector.
MayThrow(f, byValue, byCopy) ==
    CASE f.at = "alloc"  -> TRUE
      [] f.at = "ctor"   -> byValue => (T.copyable \/ ~T.nothrowMove)
      [] f.at = "value"  -> TRUE
      [] f.at = "xfer"   -> IF UseMove /\ ~byCopy THEN ~T.nothrowMove ELSE TRUE
      [] f.at = "mvlast" -> ~T.nothrowMove
      [] f.at = "shift"  -> TRUE
      [] f.at = "assign" -> TRUE
      [] f.at = "copy"   -> TRUE
      [] OTHER           -> FALSE

\* No call has run into undefined behaviour: the heap is intact and no
\* Vector points to released storage.  The model follows the program up to
\* the first such call and no further.
Defined == heap = "ok" /\ \A i \in Vecs : ~vec[i].released

\* The record of a call: the operation, the Vector vec[tgt] it was made on,
\* its arguments, the step that threw, what the call reported, and pre, the
\* Vectors before the call.  An Erase made right after an Insert or Emplace
\* at the same place (undoes) carries in before the Vector that call
\* started from.
Call(op, tgt, arg, val, f, r) ==
    [op |-> op, tgt |-> tgt, arg |-> arg, val |-> val, at |-> f.at, k |-> f.k,
     ok |-> r.ok, path |-> r.path, leaked |-> r.leaked, allocs |-> r.allocs,
     copies |-> r.copies, del |-> r.del, pre |-> vec,
     undoes |-> FALSE, before |-> EmptyVector]

\* No call is being looked at: the caller is about to make the next one.
NoCall ==
    [op |-> "none", tgt |-> 1, arg |-> 0, val |-> 0, at |-> "none", k |-> 0,
     ok |-> TRUE, path |-> "none", leaked |-> 0, allocs |-> 0, copies |-> 0,
     del |-> "none", pre |-> [i \in Vecs |-> EmptyVector],
     undoes |-> FALSE, before |-> EmptyVector]

Idle == last.op = "none"

Init ==
    /\ vec = [i \in Vecs |-> EmptyVector]
    /\ T \in ElemTypes
    /\ heap = "ok"
    /\ last = NoCall
    /\ mem = [b \in Bufs |-> NoBuffer]
    /\ blocks = [a \in Blocks |-> "unused"]

\* The bound on the capacity of vec[i]: calls that would take a Vector past
\* it are not made.
CapOf(i) == IF i = 1 THEN MaxCap ELSE MaxOther

\* A call that may grow vec[i] is made while the new capacity fits.
Fits(i) == Capacity(vec[i]) > vec[i].size_ \/ GrowCapacity(vec[i]) <= CapOf(i)

\* A call on vec[i] that returns or throws without operator delete.
Apply(i, op, arg, val, f, r) ==
    /\ r.del = "none"
    /\ vec' = [vec EXCEPT ![i] = r.v]
    /\ last' = Call(op, i, arg, val, f, r)
    /\ UNCHANGED <<T, heap>>

ReserveOK(i, n) ==
    /\ n <= CapOf(i)
    /\ Apply(i, "Reserve", n, 0, NoFail, Reserve(vec[i], n, NoFail))

ReserveThrows(i, n, f) ==
    /\ n <= CapOf(i) /\ MayThrow(f, FALSE, FALSE)
    /\ LET r == Reserve(vec[i], n, f)
       IN  ~r.ok /\ Apply(i, "Reserve", n, 0, f, r)

ResizeOK(i, n) ==
    /\ n <= CapOf(i)
    /\ Apply(i, "Resize", n, 0, NoFail, Resize(vec[i], n, NoFail))

ResizeThrows(i, n, f) ==
    /\ n <= CapOf(i) /\ MayThrow(f, FALSE, FALSE)
    /\ LET r == Resize(vec[i], n, f)
       IN  ~r.ok /\ Apply(i, "Resize", n, 0, f, r)

PushBackOK(i, x) ==
    /\ Fits(i)
    /\ Apply(i, "PushBack", vec[i].size_, x, NoFail, PushBack(vec[i], x, NoFail))

PushBackThrows(i, x, f) ==
    /\ Fits(i) /\ MayThrow(f, TRUE, FALSE)
    /\ LET r == PushBack(vec[i], x, f)
       IN  ~r.ok /\ Apply(i, "PushBack", vec[i].size_, x, f, r)

EmplaceBackOK(i, x) ==
    /\ Fits(i)
    /\ Apply(i, "EmplaceBack", vec[i].size_, x, NoFail, EmplaceBack(vec[i], x, NoFail))

EmplaceBackThrows(i, x, f) ==
    /\ Fits(i) /\ MayThrow(f, FALSE, FALSE)
    /\ LET r == EmplaceBack(vec[i], x, f)
       IN  ~r.ok /\ Apply(i, "EmplaceBack", vec[i].size_, x, f, r)

\* PopBack requires a non-empty Vector.
PopBackOK(i) ==
    /\ vec[i].size_ > 0
    /\ Apply(i, "PopBack", 0, 0, NoFail, PopBack(vec[i]))

\* Insert and Emplace require begin() <= pos <= end().
InsertOK(i, p, x) ==
    /\ Fits(i) /\ p <= vec[i].size_
    /\ Apply(i, "Insert", p, x, NoFail, Insert(vec[i], p, x, NoFail))

EmplaceOK(i, p, x) ==
    /\ Fits(i) /\ p <= vec[i].size_
    /\ Apply(i, "Emplace", p, x, NoFail, Emplace(vec[i], p, x, NoFail))

\* A throwing Insert or Emplace.  On the in-place path the handler has
\* called operator delete(end()).  With the address of the owned buffer
\* that releases the buffer, and data_ keeps pointing to it; with an address
\* inside the buffer the call is undefined: the allocator may ignore it,
\* corrupt the heap, or abort the program.
EmplaceThrowsAs(i, op, p, x, f, r) ==
    /\ ~r.ok
    /\ last' = Call(op, i, p, x, f, r)
    /\ UNCHANGED T
    /\ \/ /\ r.del = "none"
          /\ vec' = [vec EXCEPT ![i] = r.v]
          /\ heap' = heap
       \/ /\ r.del = "buffer"
          /\ vec' = [vec EXCEPT ![i] = [r.v EXCEPT !.released = TRUE]]
          /\ heap' = heap
       \/ /\ r.del = "interior"
          /\ vec' = [vec EXCEPT ![i] = r.v]
          /\ heap' \in {"ok", "corrupt", "abort"}

InsertThrows(i, p, x, f) ==
    /\ Fits(i) /\ p <= vec[i].size_ /\ MayThrow(f, TRUE, FALSE)
    /\ EmplaceThrowsAs(i, "Insert", p, x, f, Insert(vec[i], p, x, f))

EmplaceThrows(i, p, x, f) ==
    /\ Fits(i) /\ p <= vec[i].size_ /\ MayThrow(f, FALSE, FALSE)
    /\ EmplaceThrowsAs(i, "Emplace", p, x, f, Emplace(vec[i], p, x, f))

\* The same calls with vec[i][j] as the argument; T is copyable.
PushBackElem(i, j) ==
    /\ T.copyable /\ j < vec[i].size_
    /\ PushBackOK(i, Ref(j))

EmplaceBackElem(i, j) ==
    /\ T.copyable /\ j < vec[i].size_
    /\ EmplaceBackOK(i, Ref(j))

InsertElem(i, p, j) ==
    /\ T.copyable /\ j < vec[i].size_
    /\ InsertOK(i, p, Ref(j))

EmplaceElem(i, p, j) ==
    /\ T.copyable /\ j < vec[i].size_
    /\ EmplaceOK(i, p, Ref(j))

\* The last call was an Insert or Emplace into vec[i] at p that returned.
Undoes(i, p) ==
    last.op \in {"Insert", "Emplace"} /\ last.ok /\ last.tgt = i /\ last.arg = p

\* Erase requires begin() <= pos < end().
EraseOK(i, p) ==
    /\ p < vec[i].size_
    /\ LET r == Erase(vec[i], p, NoFail)
       IN  /\ vec' = [vec EXCEPT ![i] = r.v]
           /\ last' = [Call("Erase", i, p, 0, NoFail, r)
                         EXCEPT !.undoes = Undoes(i, p),
                                !.before = IF Undoes(i, p) THEN last.pre[i]
                                           ELSE EmptyVector]
    /\ UNCHANGED <<T, heap>>

EraseThrows(i, p, f) ==
    /\ p < vec[i].size_ /\ MayThrow(f, FALSE, FALSE)
    /\ LET r == Erase(vec[i], p, f)
       IN  ~r.ok /\ Apply(i, "Erase", p, 0, f, r)

\* vec[i] = vec[j]; T is copyable.
CopyAssignOK(i, j) ==
    /\ T.copyable /\ vec[j].size_ <= CapOf(i)
    /\ Apply(i, "CopyAssign", j, 0, NoFail, CopyAssign(vec[i], vec[j], i = j, NoFail))

CopyAssignThrows(i, j, f) ==
    /\ T.copyable /\ vec[j].size_ <= CapOf(i) /\ MayThrow(f, FALSE, TRUE)
    /\ LET r == CopyAssign(vec[i], vec[j], i = j, f)
       IN  ~r.ok /\ Apply(i, "CopyAssign", j, 0, f, r)

\* The record of a call on the two Vectors vec[i] and vec[j] that cannot
\* throw; r: what Swap or the move constructor reports.
Call2(op, i, j, leaked, r) ==
    Call(op, i, j, 0, NoFail,
         Result(EmptyVector, TRUE, "none", leaked, r.allocs, r.copies, "none"))

\* vec[i] = std::move(vec[j])
MoveAssignOp(i, j) ==
    /\ Capacity(vec[i]) <= CapOf(j) /\ Capacity(vec[j]) <= CapOf(i)
    /\ LET r == MoveAssignVector(vec[i], vec[j])
       IN  /\ vec' = [vec EXCEPT ![i] = r.this, ![j] = r.other]
           /\ last' = Call2("MoveAssign", i, j, 0, r)
    /\ UNCHANGED <<T, heap>>

\* vec[i].Swap(vec[j])
SwapOp(i, j) ==
    /\ Capacity(vec[i]) <= CapOf(j) /\ Capacity(vec[j]) <= CapOf(i)
    /\ LET r == Swap(vec[i], vec[j])
       IN  /\ vec' = [vec EXCEPT ![i] = r.this, ![j] = r.other]
           /\ last' = Call2("Swap", i, j, 0, r)
    /\ UNCHANGED <<T, heap>>

\* The object vec[i] is destroyed and a new Vector is move-constructed in
\* its place from vec[j].
MoveConstruct(i, j) ==
    /\ i # j /\ Capacity(vec[j]) <= CapOf(i)
    /\ LET r == VectorMoveCtor(vec[j])
       IN  /\ vec' = [vec EXCEPT ![i] = r.new, ![j] = r.other]
           /\ last' = Call2("MoveConstruct", i, j, VectorDtor(vec[i]), r)
    /\ UNCHANGED <<T, heap>>

\* The caller has seen the outcome of the last call and goes on to the next
\* one.  A run is followed past a call that threw only when that call left
\* the Vectors as they were, and not past a failed assertion or a call made
\* against its precondition.
Continue ==
    /\ ~Idle /\ Defined
    /\ last.ok \/ vec = last.pre
    /\ last.path \notin {"assert", "undefined"}
    /\ last' = NoCall
    /\ UNCHANGED <<vec, T, heap, mem, blocks>>

Positions == 0 .. (MaxCap - 1)
Sizes == 0 .. MaxCap

\* The calls that return.  A call is made when the caller has gone on from
\* the last one; an Erase is also made right after the Insert or Emplace it
\* undoes.
NextOK ==
    \/ /\ Idle /\ Defined
       /\ \E i \in Vecs :
            \/ \E n \in Sizes : ReserveOK(i, n)
            \/ \E n \in Sizes : ResizeOK(i, n)
            \/ \E x \in Values : PushBackOK(i, x)
            \/ \E x \in Values : EmplaceBackOK(i, x)
            \/ PopBackOK(i)
            \/ \E p \in Positions, x \in Values : InsertOK(i, p, x)
            \/ \E p \in Positions, x \in Values : EmplaceOK(i, p, x)
            \/ \E j \in Positions : PushBackElem(i, j)
            \/ \E j \in Positions : EmplaceBackElem(i, j)
            \/ \E p \in Positions, j \in Positions : InsertElem(i, p, j)
            \/ \E p \in Positions, j \in Positions : EmplaceElem(i, p, j)
            \/ \E p \in Positions : EraseOK(i, p)
            \/ \E j \in Vecs : CopyAssignOK(i, j)
            \/ \E j \in Vecs : MoveAssignOp(i, j)
            \/ \E j \in Vecs : SwapOp(i, j)
            \/ \E j \in Vecs : MoveConstruct(i, j)
       /\ UNCHANGED <<mem, blocks>>
    \/ /\ ~Idle /\ Defined
       /\ Undoes(last.tgt, last.arg) /\ EraseOK(last.tgt, last.arg)
       /\ UNCHANGED <<mem, blocks>>
    \/ Continue

\* The calls that throw.
NextThrows ==
    /\ Idle /\ Defined
    /\ \E i \in Vecs :
        \/ \E n \in Sizes, f \in ReserveSteps : ReserveThrows(i, n, f)
        \/ \E n \in Sizes, f \in ResizeSteps : ResizeThrows(i, n, f)
        \/ \E x \in Values, f \in PushBackSteps : PushBackThrows(i, x, f)
        \/ \E x \in Values, f \in PushBackSteps : EmplaceBackThrows(i, x, f)
        \/ \E p \in Positions, x \in Values, f \in EmplaceSteps : InsertThrows(i, p, x, f)
        \/ \E p \in Positions, x \in Values, f \in EmplaceSteps : EmplaceThrows(i, p, x, f)
        \/ \E p \in Positions, f \in EraseSteps : EraseThrows(i, p, f)
        \/ \E j \in Vecs, f \in CopyAssignSteps : CopyAssignThrows(i, j, f)
    /\ UNCHANGED <<mem, blocks>>

Next == NextOK \/ NextThrows

\* Every call, throwing ones included.
Spec == Init /\ [][Next]_vars

\* Only calls that return.
SpecOK == Init /\ [][NextOK]_vars

----------------------------------------------------------------------------
(* Calls made against their preconditions, in a build with assertions *)

\* vec[i][index], with any index.
IndexOp(i, index) ==
    LET r == Index(vec[i], index)
    IN  Apply(i, "Index", index, IF r.ok THEN vec[i].data_[index + 1] ELSE 0,
              NoFail, r)

\* A call whose behaviour is undefined has run to its end: it has done to
\* the Vector what its code does, and the accesses it made outside the
\* storage or the live objects of the Vector have left the heap intact,
\* corrupted it, or ended the program.
Undefined(i, op, arg, r) ==
    /\ vec' = [vec EXCEPT ![i] = r.v]
    /\ last' = [Call(op, i, arg, 0, NoFail, r) EXCEPT !.path = "undefined"]
    /\ heap' \in {"ok", "corrupt", "abort"}
    /\ UNCHANGED T

\* vec[i].PopBack() on an empty Vector.
PopBackEmpty(i) ==
    /\ vec[i].size_ = 0
    /\ Undefined(i, "PopBack", 0, PopBack(vec[i]))

\* vec[i].Erase(vec[i].end()), on an empty Vector or not: std::move is given
\* the range [end() + 1, end()) and moves nothing, destroy_at is given
\* end() - 1.
EraseAtEnd(i) ==
    Undefined(i, "Erase", vec[i].size_, Erase(vec[i], vec[i].size_, NoFail))

NextMisuse ==
    \/ NextOK
    \/ /\ Idle /\ Defined
       /\ \E i \in Vecs :
            \/ \E index \in Sizes : IndexOp(i, index)
            \/ PopBackEmpty(i)
            \/ EraseAtEnd(i)
       /\ UNCHANGED <<mem, blocks>>

\* Calls that return, and calls made with an index, on a Vector or at a
\* position their precondition excludes.
SpecMisuse == Init /\ [][NextMisuse]_vars

----------------------------------------------------------------------------
(* The program handling RawMemory<T> objects directly *)

\* The record of a call on the RawMemory object mem[b], with mem[o] as its
\* argument.
RawCall(op, b, o) == [NoCall EXCEPT !.op = op, !.tgt = b, !.arg = o]

\* The address operator new returns next: one it has not returned before.
Fresh(a) == blocks[a] = "unused" /\ \A c \in Blocks : c < a => blocks[c] # "unused"

\* RawMemory<T> mem[b](capacity), made while operator new has an address
\* left to return.
ConstructRaw(b, capacity) ==
    /\ ~mem[b].alive
    /\ \E a \in Blocks :
         /\ Fresh(a)
         /\ LET m == RawCtor(capacity, a)
            IN  /\ mem' = [mem EXCEPT ![b] = m]
                /\ blocks' = IF m.buffer_ = Null THEN blocks
                             ELSE [blocks EXCEPT ![m.buffer_] = "allocated"]
    /\ last' = RawCall("RawCtor", b, capacity)
    /\ UNCHANGED <<vec, T, heap>>

\* RawMemory<T> mem[b](std::move(mem[o]))
MoveConstructRaw(b, o) ==
    /\ ~mem[b].alive /\ mem[o].alive
    /\ LET r == RawMoveCtor(mem[o])
       IN  mem' = [mem EXCEPT ![b] = r.this, ![o] = r.other]
    /\ last' = RawCall("RawMoveCtor", b, o)
    /\ UNCHANGED <<vec, T, heap, blocks>>

\* mem[b] = std::move(mem[o])
MoveAssignRaw(b, o) ==
    /\ mem[b].alive /\ mem[o].alive
    /\ LET r == RawMoveAssign(mem[b], mem[o], b = o)
       IN  mem' = [mem EXCEPT ![o] = r.other, ![b] = r.this]
    /\ last' = RawCall("RawMoveAssign", b, o)
    /\ UNCHANGED <<vec, T, heap, blocks>>

\* mem[b].Swap(mem[o])
SwapRaw(b, o) ==
    /\ mem[b].alive /\ mem[o].alive
    /\ LET r == RawSwap(mem[b], mem[o])
       IN  mem' = [mem EXCEPT ![o] = r.other, ![b] = r.this]
    /\ last' = RawCall("RawSwap", b, o)
    /\ UNCHANGED <<vec, T, heap, blocks>>

\* mem[b] goes out of scope.
DestroyRaw(b) ==
    /\ mem[b].alive
    /\ blocks' = RawDtor(mem[b], blocks)
    /\ mem' = [mem EXCEPT ![b] = NoBuffer]
    /\ last' = RawCall("RawDtor", b, b)
    /\ UNCHANGED <<vec, T, heap>>

RawCaps == 0 .. MaxOther

NextRaw ==
    \E b \in Bufs :
        \/ \E n \in RawCaps : ConstructRaw(b, n)
        \/ \E o \in Bufs : MoveConstructRaw(b, o)
        \/ \E o \in Bufs : MoveAssignRaw(b, o)
        \/ \E o \in Bufs : SwapRaw(b, o)
        \/ DestroyRaw(b)

\* RawMemory objects constructed, moved, swapped and destroyed.
SpecRaw == Init /\ [][NextRaw]_vars

----------------------------------------------------------------------------
(* The state of a Vector *)

\* 0 <= size_ <= Capacity(), the slots [0, size_) hold live objects and the
\* slots [size_, Capacity()) are raw.
Valid(v) ==
    /\ 0 <= v.size_ /\ v.size_ <= Capacity(v)
    /\ \A j \in 1 .. Capacity(v) : (j <= v.size_) <=> (v.data_[j] # Raw)

\* The Vector the last call was made on, before and after it.
Before == last.pre[last.tgt]
After == vec[last.tgt]

PushOps == {"PushBack", "EmplaceBack", "Insert", "Emplace"}

----------------------------------------------------------------------------
(* C1 *)

\* C1: in every state reached from two empty Vectors by calls that return
\* and whose preconditions hold, every Vector has 0 <= size_ <= Capacity(),
\* live objects in exactly the slots [0, size_) and raw storage in the slots
\* [size_, Capacity()).
C1_LiveExactlyBelowSize == \A i \in Vecs : Valid(vec[i])

\* An Erase at the front of a Vector of three elements with spare capacity
\* has returned, while the other Vector holds elements too.
C1_Witness ==
    /\ last.op = "Erase" /\ last.ok /\ last.arg = 0
    /\ Before.size_ = 3 /\ Capacity(After) = 4
    /\ \E i \in Vecs : i # last.tgt /\ vec[i].size_ > 0

----------------------------------------------------------------------------
(* C2 *)

\* C2: a PushBack, EmplaceBack, Insert or Emplace that returns makes size_
\* one larger; made with size_ == Capacity() it leaves the capacity
\* max(1, 2 * the capacity before), and made with size_ < Capacity() it
\* leaves the capacity as it was.
C2_CapacityDoubles ==
    (last.op \in PushOps /\ last.ok) =>
        /\ After.size_ = Before.size_ + 1
        /\ Capacity(After) = IF Before.size_ = Capacity(Before)
                             THEN Max(1, 2 * Capacity(Before))
                             ELSE Capacity(Before)

\* A call has grown a full Vector of capacity 2, and so to capacity 4.
C2_Witness ==
    /\ last.op \in PushOps /\ last.ok /\ last.path = "grow"
    /\ Before.size_ = 2 /\ Capacity(Before) = 2

----------------------------------------------------------------------------
(* C3 - C7: calls that throw *)

\* The calls that reallocate when the capacity is exhausted.
GrowOps == {"Reserve", "PushBack", "EmplaceBack", "Insert", "Emplace"}

\* The last call threw on its reallocating path.
GrowThrew == ~last.ok /\ last.path = "grow"

\* T is transferred into new storage by copy: it can be copied and its move
\* constructor may throw.
CopiedType == T.copyable /\ ~T.nothrowMove

\* C3: when Reserve, PushBack, EmplaceBack, Insert, Emplace or a
\* copy-assignment throws on its reallocating path because the allocation
\* failed, the constructor of the new element threw, or a copy of an element
\* into the new storage threw, then both Vectors (size_, capacity, buffer and
\* every element) are what they were before the call and no owned storage
\* was released.
C3_StrongGuarantee ==
    (/\ last.op \in GrowOps \cup {"CopyAssign"}
     /\ GrowThrew
     /\ \/ last.at \in {"alloc", "ctor"}
        \/ last.at = "xfer" /\ (last.op = "CopyAssign" \/ CopiedType))
    => (vec = last.pre /\ Defined)

\* The copy of the second element into the new storage threw in a call on a
\* full Vector.
C3_Witness ==
    /\ last.op \in {"PushBack", "Emplace"} /\ GrowThrew
    /\ last.at = "xfer" /\ last.k = 1 /\ CopiedType
    /\ Before.size_ = 2

\* C4: when a PushBack, EmplaceBack, Insert or Emplace throws on its
\* reallocating path while copying the elements into the new storage, every
\* object built in the new storage is destroyed before that storage is
\* released: no object is leaked.
C4_NoLeakOnGrowthFailure ==
    (last.op \in PushOps /\ GrowThrew /\ last.at = "xfer" /\ CopiedType)
    => last.leaked = 0

\* C5 as claimed: a reallocation that transfers by move (T's move
\* constructor is noexcept, or T cannot be copied) never fails in the
\* transfer.
C5_MoveTransferNeverFails ==
    (last.op \in GrowOps /\ last.path = "grow" /\ (T.nothrowMove \/ ~T.copyable))
    => last.at # "xfer"

\* C5, amended: the transfer of a reallocation cannot fail when T's move
\* constructor is noexcept; and a reallocation fails with elements of the old
\* buffer already moved from only for a T that cannot be copied and whose
\* move constructor may throw.
C5_OnlyNoexceptMoveIsSafe ==
    /\ (last.op \in GrowOps /\ last.path = "grow" /\ last.at = "xfer")
       => ~T.nothrowMove
    /\ (last.op \in GrowOps /\ GrowThrew /\ After.data_ # Before.data_)
       => (~T.nothrowMove /\ ~T.copyable)

\* A reallocation of a Vector of a move-only T threw after the first element
\* had been moved out of the old buffer.
C5_Witness ==
    /\ last.op \in GrowOps /\ GrowThrew /\ last.at = "xfer" /\ last.k >= 1
    /\ ~T.nothrowMove /\ ~T.copyable
    /\ After.data_[1] = MovedFrom /\ After.size_ = Before.size_

\* C6: when the construction of the new element throws on the in-place path
\* of Insert or Emplace, nothing has changed: both Vectors are what they
\* were, and no storage was released.
C6_InPlaceCtorFailureChangesNothing ==
    (last.op \in {"Insert", "Emplace"} /\ ~last.ok /\ last.path = "inplace"
     /\ last.at = "ctor")
    => (vec = last.pre /\ Defined /\ last.del = "none")

\* C7: when a move of an element throws on the in-place path of an Insert
\* or Emplace before end(), the Vector stays valid: live objects in exactly
\* the slots [0, size_), and its buffer neither released nor corrupted.
C7_InPlaceMoveFailureLeavesValid ==
    (last.op \in {"Insert", "Emplace"} /\ ~last.ok /\ last.path = "inplace"
     /\ last.at \in {"mvlast", "shift", "assign"})
    => (Valid(After) /\ Defined /\ last.del = "none")

----------------------------------------------------------------------------
(* C8 - C10 *)

MoveOps == {"MoveConstruct", "MoveAssign"}

\* The source of the last move, before and after it.
SourceBefore == last.pre[last.arg]
SourceAfter == vec[last.arg]

\* C8 as claimed: a move-construction or move-assignment from another
\* Vector copies no element, allocates nothing, gives the destination the
\* elements of the source and leaves the source with size_ 0.
C8_MoveLeavesSourceEmpty ==
    (last.op \in MoveOps /\ last.tgt # last.arg)
    => /\ last.copies = 0 /\ last.allocs = 0
       /\ Elems(After) = Elems(SourceBefore)
       /\ SourceAfter.size_ = 0

\* C8, amended: a move-construction or move-assignment copies no element,
\* allocates nothing and gives the destination the buffer and the elements of
\* the source; a move-construction leaves the source with size_ 0 and no
\* buffer, a move-assignment leaves the source with the buffer and the
\* elements the destination had (so with size_ 0 only when the destination
\* was empty).
C8_MoveAssignExchanges ==
    /\ last.op \in MoveOps
       => /\ last.copies = 0 /\ last.allocs = 0
          /\ After = SourceBefore
    /\ last.op = "MoveConstruct" => SourceAfter = EmptyVector
    /\ last.op = "MoveAssign" => SourceAfter = Before

\* A move-assignment from a non-empty Vector into another, non-empty one.
C8_Witness ==
    /\ last.op = "MoveAssign" /\ last.tgt # last.arg
    /\ Before.size_ > 0 /\ SourceBefore.size_ > 0
    /\ Elems(Before) # Elems(SourceBefore)

\* C9: an Insert or Emplace at position p followed by an Erase at p leaves
\* the size_ and the elements the Vector had before the Insert, whether the
\* Insert reallocated or not.
C9_InsertThenEraseRestores ==
    (last.op = "Erase" /\ last.ok /\ last.undoes)
    => /\ After.size_ = last.before.size_
       /\ Elems(After) = Elems(last.before)

\* An Erase has undone an Insert in the middle of a full Vector of two
\* elements, which reallocated.
C9_Witness ==
    /\ last.op = "Erase" /\ last.ok /\ last.undoes /\ last.arg = 1
    /\ last.before.size_ = 2 /\ Capacity(last.before) = 2
    /\ Capacity(After) = 4

\* C10: Reserve(n) with n <= Capacity() returns with both Vectors (capacity,
\* size_, buffer, elements) unchanged and without an allocation.
C10_ReserveWithinCapacityIsNoOp ==
    (last.op = "Reserve" /\ last.arg <= Capacity(Before))
    => (last.ok /\ vec = last.pre /\ last.allocs = 0)

\* A Reserve of exactly the capacity of a Vector that holds elements and
\* has spare capacity.
C10_Witness ==
    /\ last.op = "Reserve" /\ last.arg = Capacity(Before)
    /\ Before.size_ > 0 /\ Before.size_ < Capacity(Before)

----------------------------------------------------------------------------
(* C15, C17: RawMemory objects *)

RawMoves == {"RawMoveCtor", "RawMoveAssign"}

\* C15: every live RawMemory object with capacity_ == 0 has buffer_ ==
\* nullptr, whatever constructions, move-constructions, move-assignments and
\* Swaps were made; and the source of a move-construction or of a
\* move-assignment to another object is left with buffer_ == nullptr and
\* capacity_ == 0.
C15_ZeroCapacityIsNull ==
    /\ \A b \in Bufs :
         (mem[b].alive /\ mem[b].capacity_ = 0) => mem[b].buffer_ = Null
    /\ (last.op \in RawMoves /\ last.tgt # last.arg)
       => (mem[last.arg].buffer_ = Null /\ mem[last.arg].capacity_ = 0)

\* A RawMemory that owns storage has been move-assigned to another object
\* while a RawMemory constructed with capacity 0 is alive.
C15_Witness ==
    /\ last.op = "RawMoveAssign" /\ last.tgt # last.arg
    /\ mem[last.tgt].capacity_ > 0 /\ mem[last.tgt].buffer_ # Null
    /\ \E b \in Bufs : b # last.arg /\ mem[b].alive /\ mem[b].capacity_ = 0

\* C17: no storage is released twice, and once every RawMemory object has
\* been destroyed no storage that was allocated is left unreleased.
C17_EveryAllocationReleasedOnce ==
    /\ \A a \in Blocks : blocks[a] # "released twice"
    /\ (\A b \in Bufs : ~mem[b].alive)
       => \A a \in Blocks : blocks[a] # "allocated"

----------------------------------------------------------------------------
(* C11 - C13: calls that return *)

\* C11: a Reserve, PushBack, EmplaceBack, Insert or Emplace that reallocates
\* and returns makes one allocation, keeps every element the Vector had, in
\* order (around the new element, if there is one), destroys every element
\* of the old buffer once (each slot it destroys held a live object, and no
\* object is alive in the buffer when it is released); after Reserve(n) the
\* capacity is n and size_ is what it was.
C11_ReallocationPreserves ==
    (last.op \in GrowOps /\ last.ok /\ last.path = "grow") =>
        /\ last.allocs = 1 /\ last.leaked = 0
        /\ LiveIn(Before.data_, 0, Before.size_) = Before.size_
        /\ last.op = "Reserve" =>
              /\ Capacity(After) = last.arg
              /\ After.size_ = Before.size_
              /\ Elems(After) = Elems(Before)
        /\ last.op \in PushOps =>
              /\ After.size_ = Before.size_ + 1
              /\ \A j \in 1 .. Before.size_ :
                    After.data_[IF j <= last.arg THEN j ELSE j + 1] = Before.data_[j]

\* A Reserve has reallocated a Vector of two different elements.
C11_Witness ==
    /\ last.op = "Reserve" /\ last.ok /\ last.path = "grow"
    /\ Before.size_ = 2 /\ Before.data_[1] # Before.data_[2]
    /\ last.arg > Capacity(Before)

\* C12: a Resize(n) that returns leaves size_ == n.  With n < size_ the
\* first n elements and the capacity are what they were and the other
\* size_ - n objects are destroyed; with n > size_ the elements are what they
\* were, followed by n - size_ value-initialised ones, and the capacity is n
\* if n exceeded it and unchanged otherwise; with n == size_ nothing changes.
C12_ResizeSetsLength ==
    (last.op = "Resize" /\ last.ok) =>
        /\ After.size_ = last.arg
        /\ Valid(After) /\ last.leaked = 0
        /\ last.arg < Before.size_ =>
              /\ Capacity(After) = Capacity(Before)
              /\ Elems(After) = SubSeq(Before.data_, 1, last.arg)
        /\ last.arg > Before.size_ =>
              /\ SubSeq(After.data_, 1, Before.size_) = Elems(Before)
              /\ \A j \in (Before.size_ + 1) .. last.arg :
                    After.data_[j] = DefaultValue
              /\ Capacity(After) = IF last.arg > Capacity(Before) THEN last.arg
                                   ELSE Capacity(Before)
        /\ last.arg = Before.size_ => vec = last.pre

\* A Resize has cut a Vector of three elements down to one.
C12_Witness ==
    /\ last.op = "Resize" /\ last.ok
    /\ Before.size_ = 3 /\ last.arg = 1 /\ Before.data_[1] # DefaultValue

\* The source of the last copy-assignment.
CopySource == last.pre[last.arg]

\* C13: a copy-assignment that returns leaves the target with the size_ and
\* the elements of the source, in each of its three branches, and the source
\* as it was; no object of the target is left alive past its new size_ or
\* released undestroyed; the capacity of the target changes only when the
\* size_ of the source exceeded it; a Vector assigned to itself is unchanged.
C13_CopyAssignEqualsSource ==
    (last.op = "CopyAssign" /\ last.ok) =>
        /\ After.size_ = CopySource.size_
        /\ Elems(After) = Elems(CopySource)
        /\ Valid(After) /\ last.leaked = 0
        /\ Capacity(After) = IF CopySource.size_ > Capacity(Before)
                             THEN CopySource.size_ ELSE Capacity(Before)
        /\ last.tgt # last.arg => vec[last.arg] = CopySource
        /\ last.tgt = last.arg => vec = last.pre

\* A Vector of one element has been assigned to a Vector of two elements
\* that differ from it.
C13_Witness ==
    /\ last.op = "CopyAssign" /\ last.ok /\ last.path = "inplace"
    /\ last.tgt # last.arg
    /\ Before.size_ = 2 /\ CopySource.size_ = 1
    /\ Before.data_[1] # CopySource.data_[1]

----------------------------------------------------------------------------
(* C14 *)

\* The last call was made against its precondition.
Misused ==
    \/ last.op = "Index" /\ last.arg >= Before.size_
    \/ last.op = "PopBack" /\ Before.size_ = 0
    \/ last.op = "Erase" /\ last.arg >= Before.size_

\* C14: with assertions enabled, an operator[] with index >= size_, a
\* PopBack on an empty Vector and an Erase on an empty Vector or at end()
\* are stopped by an assertion with both Vectors and the heap as they were;
\* so no Vector ever has a size_ above its capacity.
C14_AssertionStopsMisuse ==
    /\ Misused => (last.path = "assert" /\ vec = last.pre /\ heap = "ok")
    /\ \A i \in Vecs : vec[i].size_ <= Capacity(vec[i])

----------------------------------------------------------------------------
(* C16, C18: where the new element goes and what it is *)

\* return begin() + position: the offset of the iterator Emplace returns.
EmplaceReturn(position) == position

\* The elements of the Vector before the last call with x added at offset p.
WithElement(p, x) ==
    SubSeq(Elems(Before), 1, p) \o <<x>> \o SubSeq(Elems(Before), p + 1, Before.size_)

\* The three paths of Insert and Emplace.
EmplacePath ==
    IF last.path = "grow" THEN "growth"
    ELSE IF last.arg < Before.size_ THEN "in-place interior"
    ELSE "in-place at end"

\* C16: an Insert or Emplace of a value x at position p that returns leaves
\* the elements that were before p, then x, then the elements that were from
\* p on, and returns the position p, where x now is; on the growth path, on
\* the in-place path before end() and on the in-place path at end().
C16_EmplacePutsValueAtPos ==
    (last.op \in {"Insert", "Emplace"} /\ last.ok /\ last.val \in Values) =>
        /\ Elems(After) = WithElement(last.arg, last.val)
        /\ EmplaceReturn(last.arg) = last.arg
        /\ After.data_[EmplaceReturn(last.arg) + 1] = last.val

\* An Insert at the front of a Vector of three elements with spare capacity
\* has placed a value that differs from the element that was there.
C16_Witness ==
    /\ last.op \in {"Insert", "Emplace"} /\ last.ok /\ last.val \in Values
    /\ EmplacePath = "in-place interior"
    /\ last.arg = 0 /\ Before.size_ = 3 /\ Before.data_[1] # last.val
    /\ Before.data_[2] # Before.data_[3]

\* C18: a PushBack, EmplaceBack, Insert or Emplace whose argument is a
\* reference to the element v[i] of the Vector itself adds an element with
\* the value v[i] had before the call and leaves every other element with
\* its value, on the growth path and on the in-place path.
C18_SelfReferenceIsSafe ==
    (last.op \in PushOps /\ last.ok /\ IsRef(last.val)) =>
        Elems(After) = WithElement(last.arg, Deref(Before.data_, last.val))

\* A PushBack of the first of two different elements of a full Vector whose
\* elements are moved into the new buffer.
C18_Witness ==
    /\ last.op = "PushBack" /\ last.ok /\ last.val = Ref(0)
    /\ last.path = "grow" /\ UseMove
    /\ Before.size_ = 2 /\ Before.data_[1] # Before.data_[2]

----------------------------------------------------------------------------
(* C19 *)

\* C19: when an assignment or a construction of an element throws in an
\* Erase or in a copy-assignment that does not reallocate, the Vector keeps
\* its size_ and its capacity, has live objects in exactly the slots
\* [0, size_), and no storage is released or object leaked; the other Vector
\* is what it was.
C19_InPlaceFailureKeepsValid ==
    (last.op \in {"Erase", "CopyAssign"} /\ ~last.ok /\ last.path = "inplace") =>
        /\ After.size_ = Before.size_
        /\ Capacity(After) = Capacity(Before)
        /\ Valid(After)
        /\ Defined /\ last.leaked = 0 /\ last.del = "none"
        /\ \A i \in Vecs : i # last.tgt => vec[i] = last.pre[i]

\* A copy-assignment has thrown in its second assignment, after it changed
\* the first element of the target.
C19_Witness ==
    /\ last.op = "CopyAssign" /\ ~last.ok /\ last.path = "inplace"
    /\ last.at = "copy" /\ last.k = 1
    /\ Before.size_ = 2 /\ After.data_[1] # Before.data_[1]

====
